---- MODULE Spec2Model ----
(***************************************************************************)
(* Model of appconf.py, the Zombie Nginx configurator: a YAML document is  *)
(* translated into a tree of nginx directives which is printed to stdout.  *)
(*                                                                         *)
(* Python values of the input document are tagged records:                 *)
(*   [t |-> "none"], [t |-> "bool", b |-> ..], [t |-> "str", s |-> ..],    *)
(*   [t |-> "int", n |-> ..], [t |-> "list", l |-> <<..>>],                *)
(*   [t |-> "dict", d |-> record], [t |-> "ref", r |-> heap index]         *)
(* A dict is a record whose DOMAIN is the set of keys it has.  The upstream*)
(* mappings are kept in a heap because parse_single_upstream assigns into   *)
(* them and a YAML alias makes two entries the same object.                *)
(*                                                                         *)
(* A directive (a Python tuple or list) is a record                        *)
(*   [toks |-> tokens, block |-> child directives, isblock |-> BOOLEAN]    *)
(* where isblock says that the last element of the tuple is a list.        *)
(***************************************************************************)
EXTENDS Integers, Sequences, FiniteSets, TLC

VARIABLES
    doc,              \* app_conf, the loaded document (servers, http_raw_options)
    heap,             \* the upstream mapping objects of the document
    pc,               \* position of main
    upstream_counter, \* _upstream_counter
    pu_s, pu_e,       \* parse_upstreams: server and entry being visited
    upstreams,        \* parse_upstreams: upstreams (upstreams_conf in main)
    configs,          \* parse_upstreams: configs (upstreams_data in main)
    visits,           \* history: one record per call of parse_single_upstream
    gs_i,             \* generate_servers: index of the next server
    servers,          \* generate_servers: servers (servers_conf in main)
    returned,         \* history: what each call of generate_server returned
    le_file,          \* /tmp/le-domain.txt
    gh_i,             \* generate_http: index of the next raw option
    http,             \* generate_http: http
    nginx_conf,       \* main: nginx_conf
    emit_i,           \* emit_nginx_conf: index of the next top-level item
    out               \* lines printed to stdout

vars == <<doc, heap, pc, upstream_counter, pu_s, pu_e, upstreams, configs,
          visits, gs_i, servers, returned, le_file, gh_i, http, nginx_conf,
          emit_i, out>>

-----------------------------------------------------------------------------
(* Python values *)

PyNone == [t |-> "none"]
PyBool(b) == [t |-> "bool", b |-> b]
PyStr(s) == [t |-> "str", s |-> s]
PyInt(n) == [t |-> "int", n |-> n]
PyList(l) == [t |-> "list", l |-> l]
PyDict(d) == [t |-> "dict", d |-> d]
PyRef(r) == [t |-> "ref", r |-> r]

\* str(v), as an f-string formats a value
Format(v) ==
    CASE v.t = "str" -> v.s
      [] v.t = "int" -> ToString(v.n)
      [] v.t = "bool" -> IF v.b THEN "True" ELSE "False"
      [] OTHER -> "None"

\* bool(v), as "not v" tests a value
Truthy(v) ==
    CASE v.t = "str" -> v.s # ""
      [] v.t = "int" -> v.n # 0
      [] v.t = "bool" -> v.b
      [] v.t = "list" -> v.l # <<>>
      [] v.t = "dict" -> DOMAIN v.d # {}
      [] v.t = "ref" -> TRUE
      [] OTHER -> FALSE

Has(d, k) == k \in DOMAIN d

\* str.split(' '): every single space separates, empty pieces are kept
RECURSIVE SplitFrom(_, _)
SplitFrom(s, cur) ==
    IF s = "" THEN <<cur>>
    ELSE IF Head(s) = " " THEN <<cur>> \o SplitFrom(Tail(s), "")
    ELSE SplitFrom(Tail(s), cur \o Head(s))

Split(s) == SplitFrom(s, "")

\* ' '.join(strs) for a sequence of str
RECURSIVE Join(_)
Join(strs) ==
    IF strs = <<>> THEN ""
    ELSE IF Len(strs) = 1 THEN strs[1]
    ELSE strs[1] \o " " \o Join(Tail(strs))

\* s.startswith(p)
StartsWith(s, p) == Len(s) >= Len(p) /\ SubSeq(s, 1, Len(p)) = p

-----------------------------------------------------------------------------
(* Directives *)

Strs(ss) == [i \in DOMAIN ss |-> PyStr(ss[i])]

\* a tuple of the given tokens
Tup(toks) == [toks |-> toks, block |-> <<>>, isblock |-> FALSE]
\* a tuple of str tokens
St(ss) == Tup(Strs(ss))
\* a tuple of str tokens whose last element is the list children
Blk(ss, children) == [toks |-> Strs(ss), block |-> children, isblock |-> TRUE]
\* the same with arbitrary tokens
BlkT(toks, children) == [toks |-> toks, block |-> children, isblock |-> TRUE]

\* item[0] of a directive, when it is a str ("" otherwise: no keyword)
Keyword(item) ==
    IF item.toks # <<>> /\ item.toks[1].t = "str" THEN item.toks[1].s ELSE ""

-----------------------------------------------------------------------------
(* The static tables *)

GZIP_TYPES ==
    <<"text/plain", "text/xml", "text/css", "application/x-javascript",
      "application/javascript", "application/ecmascript", "application/rss+xml",
      "application/xml", "application/json">>

\* the dicts keep insertion order: a sequence of <<name, value>>
HTTP_HEADERS ==
    << <<"X-Frame-Options", "sameorigin">>,
       <<"X-Content-Type-Options", "nosniff">>,
       <<"X-XSS-Protection", "\"1; mode=block\"">> >>

HTTPS_HEADERS ==
    << <<"Strict-Transport-Security", "max-age=63072000">> >> \o HTTP_HEADERS

TLS_CIPHERS ==
    "ECDHE-RSA-CHACHA20-POLY1305:ECDHE-RSA-AES256-GCM-SHA512:"
    \o "ECDHE-RSA-AES256-GCM-SHA384:ECDHE-RSA-AES128-GCM-SHA256:"
    \o "DHE-RSA-AES256-GCM-SHA512:DHE-RSA-AES256-GCM-SHA384:"
    \o "DHE-RSA-AES128-GCM-SHA256:ECDHE-RSA-AES256-SHA384:ECDHE-RSA-AES128-SHA256"

NGINX_GLOBALS ==
    << St(<<"#", "Auto-generated by Zombie Nginx configurator">>),
       St(<<"user", "nginx">>),
       St(<<"worker_processes", "auto">>),
       St(<<"worker_cpu_affinity", "auto">>),
       St(<<"error_log", "/var/log/nginx/error.log", "warn">>),
       St(<<"pid", "/var/run/nginx.pid">>),
       Blk(<<"events">>, << St(<<"worker_connections", "2048">>),
                            St(<<"multi_accept", "on">>) >>) >>

LOG_FORMAT ==
    "'$remote_addr - $remote_user [$time_local] \"$request\" $status $body_bytes_sent \"$http_referer\" "
    \o "\"$http_user_agent\" \"$request_time $upstream_connect_time $upstream_header_time $upstream_response_time\" "
    \o "$upstream_addr $upstream_status$ssl_protocol/$ssl_session_reused/$ssl_cipher "
    \o "$connection/$connection_requests $gzip_ratio $request_id'"

NGINX_HTTP ==
    << St(<<"server_tokens", "off">>),
       St(<<"include", "/etc/nginx/mime.types">>),
       St(<<"default_type", "application/octet-stream">>),
       St(<<"log_format", "main", LOG_FORMAT>>),
       St(<<"access_log", "/var/log/nginx/access.log", "main", "buffer=64k", "flush=3s">>),
       St(<<"error_log", "/var/log/nginx/error.log", "warn">>),
       St(<<"gzip", "on">>),
       St(<<"gzip_min_length", "1000">>),
       St(<<"gzip_static", "on">>),
       St(<<"gzip_types">> \o GZIP_TYPES),
       St(<<"gzip_vary", "on">>),
       St(<<"sendfile", "on">>),
       St(<<"tcp_nopush", "on">>),
       St(<<"tcp_nodelay", "on">>),
       St(<<"keepalive_timeout", "65">>),
       St(<<"keepalive_requests", "1000">>),
       St(<<"postpone_output", "1460">>),
       St(<<"reset_timedout_connection", "on">>),
       St(<<"open_file_cache", "max=10000", "inactive=20s">>),
       St(<<"open_file_cache_valid", "30s">>),
       St(<<"open_file_cache_min_uses", "2">>),
       St(<<"open_file_cache_errors", "on">>) >>

-----------------------------------------------------------------------------
(* generate_http *)

\* index of the first option of http whose option[0] equals key, 0 if none
FirstMatch(http_, key) ==
    IF \E i \in 1..Len(http_) : Keyword(http_[i]) = key
    THEN CHOOSE i \in 1..Len(http_) :
            /\ Keyword(http_[i]) = key
            /\ \A j \in 1..(i - 1) : Keyword(http_[j]) # key
    ELSE 0

\* generate_http_entry without the special case for include
generate_http_entry_no_include(http_, entry) ==
    LET parts == Split(entry)
        idx == FirstMatch(http_, parts[1])
    IN  IF idx # 0 THEN [http_ EXCEPT ![idx] = St(parts)]
        ELSE Append(http_, St(parts))

\* one iteration of the loop of generate_http over a str entry
generate_http_entry(http_, entry) ==
    LET parts == Split(entry)
        idx == FirstMatch(http_, parts[1])
    IN  IF parts[1] = "include" THEN Append(http_, St(parts))
        ELSE IF idx # 0 THEN [http_ EXCEPT ![idx] = St(parts)]
        ELSE Append(http_, St(parts))

-----------------------------------------------------------------------------
(* The document *)

\* a mapping with ordered keys is a sequence of [k |-> key, v |-> value]
HasKey(desc, key) == \E i \in 1..Len(desc) : desc[i].k = key

Get(desc, key) == desc[CHOOSE i \in 1..Len(desc) : desc[i].k = key].v

\* app_conf.get('servers', {}).items()
input_servers == doc.servers

-----------------------------------------------------------------------------
(* parse_single_upstream, parse_upstreams *)

\* the url of a resolved upstream: config['url'][len(proto) + 3:]
StripProto(url, proto) == SubSeq(url, Len(proto) + 4, Len(url))

\* lines 189-197, for a config dict c that has its name
resolve_upstream(c) ==
    IF ~Has(c, "location") \/ ~Has(c, "url") \/ c.url.t # "str"
    THEN [raised |-> TRUE]
    ELSE IF StartsWith(c.url.s, "http://")
    THEN [raised |-> FALSE,
          upstream |-> [name |-> c.name, location |-> c.location,
                        url |-> StripProto(c.url.s, "http"), type |-> "http"]]
    ELSE IF StartsWith(c.url.s, "uwsgi://")
    THEN [raised |-> FALSE,
          upstream |-> [name |-> c.name, location |-> c.location,
                        url |-> StripProto(c.url.s, "uwsgi"), type |-> "uwsgi"]]
    ELSE [raised |-> TRUE]

\* parse_single_upstream advancing the counter for every mapping entry, named
\* or not
parse_single_upstream_counts_named(server_name, config, hp, cnt) ==
    IF config.t = "str"
    THEN [res |-> resolve_upstream([url |-> config,
                                    name |-> PyStr(server_name \o "-upstream"),
                                    location |-> PyStr("/")]),
          heap |-> hp, counter |-> cnt]
    ELSE IF ~Has(hp[config.r], "name")
    THEN LET c == hp[config.r] @@ [name |-> PyStr("upstream-auto-" \o ToString(cnt + 1))]
         IN  [res |-> resolve_upstream(c),
              heap |-> [hp EXCEPT ![config.r] = c],
              counter |-> cnt + 1]
    ELSE [res |-> resolve_upstream(hp[config.r]),
          heap |-> hp, counter |-> cnt + 1]

\* parse_single_upstream(server_name, config) on the heap hp with the counter
\* cnt: what it returns or raises, and the heap and the counter it leaves
parse_single_upstream(server_name, config, hp, cnt) ==
    IF config.t = "str"
    THEN [res |-> resolve_upstream([url |-> config,
                                    name |-> PyStr(server_name \o "-upstream"),
                                    location |-> PyStr("/")]),
          heap |-> hp, counter |-> cnt]
    ELSE IF ~Has(hp[config.r], "name")
    THEN LET c == hp[config.r] @@ [name |-> PyStr("upstream-auto-" \o ToString(cnt + 1))]
         IN  [res |-> resolve_upstream(c),
              heap |-> [hp EXCEPT ![config.r] = c],
              counter |-> cnt + 1]
    ELSE [res |-> resolve_upstream(hp[config.r]),
          heap |-> hp, counter |-> cnt]

\* the list parse_upstreams iterates for one server
upstream_entries(server_config) ==
    IF ~HasKey(server_config, "upstream") THEN <<>>
    ELSE LET config == Get(server_config, "upstream")
         IN  IF config.t = "list" THEN config.l ELSE <<config>>

\* the block parse_upstreams appends to upstreams
upstream_block(upstream) ==
    BlkT(<<PyStr("upstream"), upstream.name>>, << St(<<"server", upstream.url>>) >>)

\* configs[server_name].append(upstream) on a defaultdict(list)
configs_append(cfgs, server_name, upstream) ==
    [cfgs EXCEPT ![server_name] = Append(@, upstream)]

\* a server without upstream entries is passed over
ParseSkip ==
    /\ pc = "upstreams"
    /\ pu_s <= Len(input_servers)
    /\ upstream_entries(input_servers[pu_s].desc) = <<>>
    /\ pu_s' = pu_s + 1
    /\ pu_e' = 1
    /\ UNCHANGED <<doc, heap, pc, upstream_counter, upstreams, configs, visits,
                   gs_i, servers, returned, le_file, gh_i, http, nginx_conf,
                   emit_i, out>>

\* one iteration of the inner loop of parse_upstreams
ParseEntry ==
    /\ pc = "upstreams"
    /\ pu_s <= Len(input_servers)
    /\ pu_e <= Len(upstream_entries(input_servers[pu_s].desc))
    /\ LET server_name == input_servers[pu_s].name
           entries == upstream_entries(input_servers[pu_s].desc)
           entry == entries[pu_e]
           r == parse_single_upstream(server_name, entry, heap, upstream_counter)
       IN  /\ heap' = r.heap
           /\ upstream_counter' = r.counter
           /\ visits' = Append(visits, [server |-> server_name, entry |-> entry,
                                        given |-> IF entry.t = "ref"
                                                  THEN PyDict(heap[entry.r])
                                                  ELSE entry,
                                        res |-> r.res])
           /\ IF r.res.raised
              THEN /\ pc' = "failed"
                   /\ UNCHANGED <<upstreams, configs, pu_s, pu_e>>
              ELSE /\ pc' = pc
                   /\ upstreams' = Append(upstreams, upstream_block(r.res.upstream))
                   /\ configs' = configs_append(configs, server_name, r.res.upstream)
                   /\ IF pu_e < Len(entries)
                      THEN pu_e' = pu_e + 1 /\ pu_s' = pu_s
                      ELSE pu_e' = 1 /\ pu_s' = pu_s + 1
    /\ UNCHANGED <<doc, gs_i, servers, returned, le_file, gh_i, http,
                   nginx_conf, emit_i, out>>

\* parse_upstreams returns; main goes on to generate_servers
ParseReturn ==
    /\ pc = "upstreams"
    /\ pu_s > Len(input_servers)
    /\ pc' = "servers"
    /\ UNCHANGED <<doc, heap, upstream_counter, pu_s, pu_e, upstreams, configs,
                   visits, gs_i, servers, returned, le_file, gh_i, http,
                   nginx_conf, emit_i, out>>

-----------------------------------------------------------------------------
(* The server blocks *)

\* the strict host check both base configs add
host_check(server_name) ==
    Blk(<<"if", "($http_host !~* ^" \o Format(server_name) \o "$)">>,
        << St(<<"return", "444">>) >>)

add_headers(headers) ==
    [i \in 1..Len(headers) |->
        St(<<"add_header", headers[i][1], headers[i][2], "always">>)]

base_config_http_common(server_name, strict_host) ==
    << St(<<"listen", "80", "deferred", "reuseport">>),
       St(<<"listen", "[::]:80", "deferred", "reuseport">>),
       Tup(<<PyStr("server_name"), server_name>>) >>
    \o (IF strict_host THEN <<host_check(server_name)>> ELSE <<>>)

base_config_https_redirect(server_name, strict_host) ==
    base_config_http_common(server_name, strict_host)
    \o << St(<<"return", "301", "https://" \o Format(server_name) \o "$request_uri">>) >>

base_config_http(server_name, strict_host) ==
    base_config_http_common(server_name, strict_host) \o add_headers(HTTP_HEADERS)

base_config_https(server_name, strict_host) ==
    << St(<<"listen", "443", "ssl", "http2", "deferred", "reuseport">>),
       St(<<"listen", "[::]:443", "ssl", "http2", "deferred", "reuseport">>),
       Tup(<<PyStr("server_name"), server_name>>) >>
    \o (IF strict_host THEN <<host_check(server_name)>> ELSE <<>>)
    \o add_headers(HTTPS_HEADERS)
    \o << St(<<"ssl_protocols", "TLSv1.2">>),
          St(<<"ssl_prefer_server_ciphers", "on">>),
          St(<<"ssl_ciphers", TLS_CIPHERS>>),
          St(<<"ssl_dhparam", "/etc/ssl/dhparam-2048.pem">>),
          St(<<"ssl_session_timeout", "1d">>),
          St(<<"ssl_session_cache", "shared:SSL:50m">>),
          St(<<"ssl_session_tickets", "off">>),
          St(<<"ssl_stapling", "on">>),
          St(<<"ssl_stapling_verify", "on">>),
          St(<<"resolver", "8.8.8.8 8.8.4.4", "valid=300s">>),
          St(<<"resolver_timeout", "5s">>) >>

\* what a function returns: a value, or an exception raised
Raise == [raised |-> TRUE]
Return(v) == [raised |-> FALSE, val |-> v]

generate_static_files_entry(description) ==
    IF description.t \notin {"str", "dict"} THEN Raise
    ELSE
    LET d == IF description.t = "str"
             THEN [path |-> description, location |-> PyStr("/static")]
             ELSE description.d
    IN  IF ~Has(d, "location") THEN Raise
        ELSE IF ~Has(d, "path") THEN Raise
        ELSE IF Has(d, "spa") /\ d.spa.t # "str" THEN Raise
        ELSE
        LET spa == IF Has(d, "spa") THEN d.spa ELSE PyNone
            config == IF Truthy(spa)
                      THEN << Tup(<<PyStr("root"), d.path>>),
                              Tup(<<PyStr("try_files"), PyStr("$uri"), spa>>) >>
                      ELSE << Tup(<<PyStr("alias"), d.path>>) >>
        IN  IF Has(d, "index")
            THEN IF Truthy(spa) THEN Raise
                 ELSE Return(BlkT(<<PyStr("location"), d.location>>,
                                  Append(config, Tup(<<PyStr("index"), d.index>>))))
            ELSE Return(BlkT(<<PyStr("location"), d.location>>, config))

\* the list comprehension of generate_static_files, from entry i on
RECURSIVE static_files_from(_, _)
static_files_from(items, i) ==
    IF i > Len(items) THEN Return(<<>>)
    ELSE LET e == generate_static_files_entry(items[i])
             rest == static_files_from(items, i + 1)
         IN  IF e.raised THEN Raise
             ELSE IF rest.raised THEN Raise
             ELSE Return(<<e.val>> \o rest.val)

generate_static_files(description) ==
    IF description.t \in {"str", "dict"} THEN static_files_from(<<description>>, 1)
    ELSE IF description.t = "list" THEN static_files_from(description.l, 1)
    ELSE Raise

CERTS_DIR == "/etc/nginx/certs/"

generate_tls_config(cert) ==
    IF cert.t # "dict" THEN Raise
    ELSE IF ~Has(cert.d, "certificate") \/ ~Has(cert.d, "key") THEN Raise
    ELSE Return(
        << St(<<"ssl_certificate", CERTS_DIR \o Format(cert.d.certificate)>>),
           St(<<"ssl_certificate_key", CERTS_DIR \o Format(cert.d.key)>>) >>
        \o (IF Has(cert.d, "root_chain")
            THEN << St(<<"ssl_trusted_certificate",
                         CERTS_DIR \o Format(cert.d.root_chain)>>) >>
            ELSE <<>>))

\* the loop "for cert in tls" of generate_server, from certificate i on
RECURSIVE tls_configs_from(_, _)
tls_configs_from(certs, i) ==
    IF i > Len(certs) THEN Return(<<>>)
    ELSE LET c == generate_tls_config(certs[i])
             rest == tls_configs_from(certs, i + 1)
         IN  IF c.raised THEN Raise
             ELSE IF rest.raised THEN Raise
             ELSE Return(c.val \o rest.val)

\* the certificate record activate_lets_encrypt returns
lets_encrypt_cert(server_name) ==
    PyDict([certificate |-> PyStr("live/" \o Format(server_name) \o "/fullchain.pem"),
            key |-> PyStr("live/" \o Format(server_name) \o "/privkey.pem"),
            root_chain |-> PyStr("live/" \o Format(server_name) \o "/chain.pem")])

\* activate_lets_encrypt opening the file to append to it
lets_encrypt_file_appended(server_name) ==
    IF server_name.t = "str"
    THEN [exists |-> TRUE, text |-> le_file.text \o server_name.s]
    ELSE [exists |-> TRUE, text |-> le_file.text]

\* the file activate_lets_encrypt leaves: open(.., 'w') empties it, and
\* f.write raises for a server_name that is no str
lets_encrypt_file(server_name) ==
    IF server_name.t = "str" THEN [exists |-> TRUE, text |-> server_name.s]
    ELSE [exists |-> TRUE, text |-> ""]

\* server_raw_options: option.split(' ') for each option, from option i on
RECURSIVE raw_options_from(_, _)
raw_options_from(content, i) ==
    IF i > Len(content) THEN Return(<<>>)
    ELSE IF content[i].t # "str" THEN Raise
    ELSE LET rest == raw_options_from(content, i + 1)
         IN  IF rest.raised THEN Raise
             ELSE Return(<<St(Split(content[i].s))>> \o rest.val)

\* the locals of generate_server before its first loop
server_locals ==
    [raised |-> FALSE, server_name |-> PyNone, tls |-> PyNone,
     check_host_header |-> TRUE, extra_config |-> <<>>]

\* one iteration of "for item, content in description.items()"
server_item(st, item, content) ==
    CASE item = "server_raw_options" ->
            IF content.t # "list" THEN [st EXCEPT !.raised = TRUE]
            ELSE LET r == raw_options_from(content.l, 1)
                 IN  IF r.raised THEN [st EXCEPT !.raised = TRUE]
                     ELSE [st EXCEPT !.extra_config = @ \o r.val]
      [] item = "server_name" -> [st EXCEPT !.server_name = content]
      [] item = "static_files" ->
            LET r == generate_static_files(content)
            IN  IF r.raised THEN [st EXCEPT !.raised = TRUE]
                ELSE [st EXCEPT !.extra_config = @ \o r.val]
      [] item = "tls" -> [st EXCEPT !.tls = content]
      [] item = "check_host_header" ->
            IF content.t # "bool" THEN [st EXCEPT !.raised = TRUE]
            ELSE [st EXCEPT !.check_host_header = content.b]
      [] item = "upstream" -> st
      [] OTHER -> [st EXCEPT !.raised = TRUE]

\* the first loop of generate_server, from item i on
RECURSIVE server_items_from(_, _, _)
server_items_from(st, description, i) ==
    IF st.raised \/ i > Len(description) THEN st
    ELSE server_items_from(server_item(st, description[i].k, description[i].v),
                           description, i + 1)

acme_location ==
    Blk(<<"location", "/.well-known/acme-challenge">>,
        << St(<<"root", "/var/www/letsencrypt">>) >>)

\* lines 269-282: use_tls, the directives added to extra_config, and whether
\* activate_lets_encrypt was called
resolve_tls(server_name, tls) ==
    IF tls.t = "bool" /\ ~tls.b
    THEN [raised |-> FALSE, use_tls |-> FALSE, config |-> <<>>, le |-> FALSE]
    ELSE IF tls.t = "str" /\ tls.s = "auto"
    THEN IF server_name.t # "str"
         THEN [raised |-> TRUE, le |-> TRUE]
         ELSE [raised |-> FALSE, use_tls |-> TRUE,
               config |-> generate_tls_config(lets_encrypt_cert(server_name)).val
                          \o <<acme_location>>,
               le |-> TRUE]
    ELSE IF tls.t = "dict"
    THEN LET r == generate_tls_config(tls)
         IN  IF r.raised THEN [raised |-> TRUE, le |-> FALSE]
             ELSE [raised |-> FALSE, use_tls |-> TRUE, config |-> r.val, le |-> FALSE]
    ELSE IF tls.t = "list"
    THEN LET r == tls_configs_from(tls.l, 1)
         IN  IF r.raised THEN [raised |-> TRUE, le |-> FALSE]
             ELSE [raised |-> FALSE, use_tls |-> TRUE, config |-> r.val, le |-> FALSE]
    ELSE [raised |-> TRUE, le |-> FALSE]

PROXY_HEADERS ==
    << St(<<"proxy_set_header", "X-Request-ID", "$request_id">>),
       St(<<"proxy_set_header", "X-Forwarded-For", "$proxy_add_x_forwarded_for">>),
       St(<<"proxy_set_header", "Host", "$http_host">>) >>

\* the location block of one upstream (lines 285-297)
upstream_location(upstream) ==
    IF upstream.type = "uwsgi"
    THEN Return(BlkT(<<PyStr("location"), upstream.location>>,
                     PROXY_HEADERS
                     \o << St(<<"include", "uwsgi_params">>),
                           Tup(<<PyStr("uwsgi_pass"), upstream.name>>) >>))
    ELSE IF upstream.type = "http"
    THEN Return(BlkT(<<PyStr("location"), upstream.location>>,
                     PROXY_HEADERS
                     \o << St(<<"proxy_pass", "http://" \o Format(upstream.name)>>) >>))
    ELSE Raise

\* the loop "for upstream in upstreams" of generate_server, from upstream i on
RECURSIVE upstream_locations_from(_, _)
upstream_locations_from(ups, i) ==
    IF i > Len(ups) THEN Return(<<>>)
    ELSE LET u == upstream_location(ups[i])
             rest == upstream_locations_from(ups, i + 1)
         IN  IF u.raised THEN Raise
             ELSE IF rest.raised THEN Raise
             ELSE Return(<<u.val>> \o rest.val)

\* server_blocks giving a plaintext server the TLS base configuration
server_blocks_https_only(name, server_name, check_host_header, use_tls, extra_config) ==
    << Blk(<<"server">>,
           << St(<<"#", name>>) >>
           \o base_config_https(server_name, check_host_header)
           \o extra_config) >>

\* lines 299-311
server_blocks(name, server_name, check_host_header, use_tls, extra_config) ==
    IF use_tls
    THEN << Blk(<<"server">>,
                << St(<<"#", name, "- force HTTPS">>) >>
                \o base_config_https_redirect(server_name, check_host_header)),
            Blk(<<"server">>,
                << St(<<"#", name>>) >>
                \o base_config_https(server_name, check_host_header)
                \o extra_config) >>
    ELSE << Blk(<<"server">>,
                << St(<<"#", name>>) >>
                \o base_config_http(server_name, check_host_header)
                \o extra_config) >>

\* generate_server with the proxy locations put before the TLS directives
generate_server_locations_first(name, description, ups) ==
    LET st == server_items_from(server_locals, description, 1)
    IN  IF st.raised THEN [raised |-> TRUE, le |-> FALSE]
        ELSE IF ~Truthy(st.server_name) THEN [raised |-> TRUE, le |-> FALSE]
        ELSE
        LET t == resolve_tls(st.server_name, st.tls)
        IN  IF t.raised THEN [raised |-> TRUE, le |-> t.le]
            ELSE
            LET locs == upstream_locations_from(ups, 1)
            IN  IF locs.raised THEN [raised |-> TRUE, le |-> t.le]
                ELSE [raised |-> FALSE, le |-> t.le,
                      val |-> server_blocks(name, st.server_name,
                                            st.check_host_header, t.use_tls,
                                            st.extra_config \o locs.val \o t.config)]

\* generate_server(name, description, upstreams): the server blocks it returns
\* or the exception, and whether it has opened /tmp/le-domain.txt for writing
generate_server(name, description, ups) ==
    LET st == server_items_from(server_locals, description, 1)
    IN  IF st.raised THEN [raised |-> TRUE, le |-> FALSE]
        ELSE IF ~Truthy(st.server_name) THEN [raised |-> TRUE, le |-> FALSE]
        ELSE
        LET t == resolve_tls(st.server_name, st.tls)
        IN  IF t.raised THEN [raised |-> TRUE, le |-> t.le]
            ELSE
            LET locs == upstream_locations_from(ups, 1)
            IN  IF locs.raised THEN [raised |-> TRUE, le |-> t.le]
                ELSE [raised |-> FALSE, le |-> t.le,
                      val |-> server_blocks(name, st.server_name,
                                            st.check_host_header, t.use_tls,
                                            st.extra_config \o t.config \o locs.val)]

\* upstreams.get(name, [])
upstreams_get(cfgs, name) == IF name \in DOMAIN cfgs THEN cfgs[name] ELSE <<>>

\* one iteration of the loop of generate_servers
GenerateServer ==
    /\ pc = "servers"
    /\ gs_i <= Len(input_servers)
    /\ LET name == input_servers[gs_i].name
           description == input_servers[gs_i].desc
           r == generate_server(name, description, upstreams_get(configs, name))
           st == server_items_from(server_locals, description, 1)
       IN  /\ le_file' = IF r.le THEN lets_encrypt_file(st.server_name) ELSE le_file
           /\ returned' = Append(returned, [raised |-> r.raised, le |-> r.le,
                                            n |-> IF r.raised THEN 0 ELSE Len(r.val)])
           /\ IF r.raised
              THEN pc' = "failed" /\ UNCHANGED <<servers, gs_i>>
              ELSE /\ servers' = servers \o r.val
                   /\ gs_i' = gs_i + 1
                   /\ pc' = pc
    /\ UNCHANGED <<doc, heap, upstream_counter, pu_s, pu_e, upstreams, configs,
                   visits, gh_i, http, nginx_conf, emit_i, out>>

\* generate_servers returns; generate_http starts from a copy of _NGINX_HTTP
GenerateServersReturn ==
    /\ pc = "servers"
    /\ gs_i > Len(input_servers)
    /\ pc' = "http"
    /\ http' = NGINX_HTTP
    /\ gh_i' = 1
    /\ UNCHANGED <<doc, heap, upstream_counter, pu_s, pu_e, upstreams, configs,
                   visits, gs_i, servers, returned, le_file, nginx_conf, emit_i, out>>

-----------------------------------------------------------------------------
(* generate_http and the assembly in main *)

\* one iteration of the loop of generate_http
GenerateHttpEntry ==
    /\ pc = "http"
    /\ gh_i <= Len(doc.http_raw_options)
    /\ LET entry == doc.http_raw_options[gh_i]
       IN  IF entry.t # "str"
           THEN pc' = "failed" /\ UNCHANGED <<http, gh_i>>
           ELSE /\ http' = generate_http_entry(http, entry.s)
                /\ gh_i' = gh_i + 1
                /\ pc' = pc
    /\ UNCHANGED <<doc, heap, upstream_counter, pu_s, pu_e, upstreams, configs,
                   visits, gs_i, servers, returned, le_file, nginx_conf, emit_i, out>>

\* main extending http with the server blocks before the upstream blocks
assemble_servers_first(http_, upstreams_conf, servers_conf) ==
    NGINX_GLOBALS \o << Blk(<<"http">>, http_ \o servers_conf \o upstreams_conf) >>

\* lines 349-352: http.extend(upstreams_conf), http.extend(servers_conf)
assemble(http_, upstreams_conf, servers_conf) ==
    NGINX_GLOBALS \o << Blk(<<"http">>, http_ \o upstreams_conf \o servers_conf) >>

\* generate_http returns and main builds nginx_conf
Assemble ==
    /\ pc = "http"
    /\ gh_i > Len(doc.http_raw_options)
    /\ http' = http \o upstreams \o servers
    /\ nginx_conf' = assemble(http, upstreams, servers)
    /\ emit_i' = 1
    /\ pc' = "emit"
    /\ UNCHANGED <<doc, heap, upstream_counter, pu_s, pu_e, upstreams, configs,
                   visits, gs_i, servers, returned, le_file, gh_i, out>>

-----------------------------------------------------------------------------
(* emit_nginx_conf *)

RECURSIVE Spaces(_)
Spaces(n) == IF n = 0 THEN "" ELSE " " \o Spaces(n - 1)

\* ' '.join(toks): a TypeError unless every token is a str
AllStr(toks) == \A i \in 1..Len(toks) : toks[i].t = "str"
JoinToks(toks) == Join([i \in 1..Len(toks) |-> toks[i].s])

\* the concatenation of seqs[lo], .., seqs[hi]
RECURSIVE Flatten(_, _, _)
Flatten(seqs, lo, hi) ==
    IF lo > hi THEN <<>>
    ELSE IF lo = hi THEN seqs[lo]
    ELSE LET mid == (lo + hi) \div 2
         IN  Flatten(seqs, lo, mid) \o Flatten(seqs, mid + 1, hi)

RECURSIVE emit_nginx_conf(_, _)

\* the body of the loop of emit_nginx_conf for one item: the lines it prints,
\* and whether it then raises
emit_item(item, indent) ==
    LET white == Spaces(indent)
    IN  IF ~AllStr(item.toks) \/ (item.toks = <<>> /\ ~item.isblock)
        THEN [lines |-> <<>>, raised |-> TRUE]
        ELSE IF item.isblock
        THEN LET inner == emit_nginx_conf(item.block, indent + 2)
             IN  [lines |-> <<white \o JoinToks(item.toks) \o " {">>
                            \o inner.lines
                            \o (IF inner.raised THEN <<>> ELSE <<white \o "}">>),
                  raised |-> inner.raised]
        ELSE IF item.toks[1].s = "#"
        THEN [lines |-> <<white \o JoinToks(item.toks)>>, raised |-> FALSE]
        ELSE [lines |-> <<white \o JoinToks(item.toks) \o ";">>, raised |-> FALSE]

\* emit_nginx_conf(config, indent=indent): the items are printed in order up to
\* the first that raises
emit_nginx_conf(config, indent) ==
    LET rs == [i \in 1..Len(config) |-> emit_item(config[i], indent)]
        bad == {i \in 1..Len(config) : rs[i].raised}
        last == IF bad = {} THEN Len(config)
                ELSE CHOOSE i \in bad : \A j \in bad : i <= j
    IN  [lines |-> Flatten([i \in 1..last |-> rs[i].lines], 1, last),
         raised |-> bad # {}]

\* one iteration of the loop of emit_nginx_conf(nginx_conf)
EmitItem ==
    /\ pc = "emit"
    /\ emit_i <= Len(nginx_conf)
    /\ LET r == emit_item(nginx_conf[emit_i], 0)
       IN  /\ out' = out \o r.lines
           /\ IF r.raised
              THEN pc' = "failed" /\ UNCHANGED emit_i
              ELSE pc' = pc /\ emit_i' = emit_i + 1
    /\ UNCHANGED <<doc, heap, upstream_counter, pu_s, pu_e, upstreams, configs,
                   visits, gs_i, servers, returned, le_file, gh_i, http, nginx_conf>>

\* emit_nginx_conf returns and main ends
EmitReturn ==
    /\ pc = "emit"
    /\ emit_i > Len(nginx_conf)
    /\ pc' = "done"
    /\ UNCHANGED <<doc, heap, upstream_counter, pu_s, pu_e, upstreams, configs,
                   visits, gs_i, servers, returned, le_file, gh_i, http,
                   nginx_conf, emit_i, out>>

-----------------------------------------------------------------------------
(* The documents the model is run on *)

MaxRawOptions == 3
MaxEntries == 3
MaxExtras == 2
MaxServers == 2

SeqsUpTo(S, n) == UNION {[1..k -> S] : k \in 0..n}

Field(key, value) == [k |-> key, v |-> value]

\* the state of the process when main has loaded the document d, whose
\* upstream mappings are the objects hp
Start(d, hp) ==
    /\ doc = d
    /\ heap = hp
    /\ pc = "upstreams"
    /\ upstream_counter = 0
    /\ pu_s = 1
    /\ pu_e = 1
    /\ upstreams = <<>>
    /\ configs = [n \in {d.servers[i].name : i \in 1..Len(d.servers)} |-> <<>>]
    /\ visits = <<>>
    /\ gs_i = 1
    /\ servers = <<>>
    /\ returned = <<>>
    /\ le_file = [exists |-> FALSE, text |-> ""]
    /\ gh_i = 1
    /\ http = <<>>
    /\ nginx_conf = <<>>
    /\ emit_i = 1
    /\ out = <<>>

(* documents of http_raw_options only *)

RawEntries ==
    { PyStr("gzip off"), PyStr("gzip  on"), PyStr("error_log off"),
      PyStr("include conf.d/a.conf"), PyStr("include conf.d/b.conf"),
      PyStr("client_max_body_size 10m"), PyStr("client_max_body_size 1m"),
      PyInt(5) }

InitHttp ==
    \E raws \in SeqsUpTo(RawEntries, MaxRawOptions) :
        Start([servers |-> <<>>, http_raw_options |-> raws], <<>>)

NextHttp == ParseReturn \/ GenerateServersReturn \/ GenerateHttpEntry

SpecHttp == InitHttp /\ [][NextHttp]_vars

(* documents of two servers "a" and "b" with upstream entries only *)

BareUrls == { PyStr("http://b:80"), PyStr("uwsgi://c:1"), PyStr("c:1") }

UpstreamDicts ==
    { [url |-> PyStr("http://b:80"), location |-> PyStr("/")],
      [url |-> PyStr("uwsgi://c:1"), location |-> PyStr("/api"),
       name |-> PyStr("a-upstream")],
      [url |-> PyStr("http://b:80"), location |-> PyStr("/"),
       name |-> PyStr("upstream-auto-1")],
      [url |-> PyStr("http://b:80")],
      [url |-> PyStr("uwsgi://c:1"), name |-> PyStr("app")],
      [url |-> PyStr("b:80"), location |-> PyStr("/")] }

\* the objects referred to before entry i
SeenRefs(es, i) == {es[j].r : j \in {k \in 1..(i - 1) : es[k].t = "ref"}}

\* objects are numbered in the order of their first use
Canonical(es) ==
    \A i \in 1..Len(es) :
        es[i].t = "ref" =>
            es[i].r \in SeenRefs(es, i) \cup {Cardinality(SeenRefs(es, i)) + 1}

EntryLists ==
    {es \in SeqsUpTo(BareUrls \cup {PyRef(j) : j \in 1..MaxEntries}, MaxEntries) :
        Canonical(es)}

\* the upstream field of a server with the entries es
UpstreamField(es) ==
    IF es = <<>> THEN <<>>
    ELSE IF Len(es) = 1 THEN <<Field("upstream", es[1])>>
    ELSE <<Field("upstream", PyList(es))>>

InitUpstream ==
    \E es \in EntryLists :
        \E hp \in [1..Cardinality(SeenRefs(es, Len(es) + 1)) -> UpstreamDicts] :
            \E k \in 0..Len(es) :
                Start([servers |->
                          << [name |-> "a", desc |-> UpstreamField(SubSeq(es, 1, k))],
                             [name |-> "b",
                              desc |-> UpstreamField(SubSeq(es, k + 1, Len(es)))] >>,
                       http_raw_options |-> <<>>],
                      hp)

NextUpstream == ParseSkip \/ ParseEntry \/ ParseReturn

SpecUpstream == InitUpstream /\ [][NextUpstream]_vars

(* documents of one server "a" with a rich description *)

CertFull ==
    PyDict([certificate |-> PyStr("site.crt"), key |-> PyStr("site.key"),
            root_chain |-> PyStr("ca.crt")])
CertPlain == PyDict([certificate |-> PyStr("ecdsa.crt"), key |-> PyStr("ecdsa.key")])
CertNoKey == PyDict([certificate |-> PyStr("site.crt")])

ServerNameFields ==
    { <<>>, <<Field("server_name", PyStr("example.com"))>>,
      <<Field("server_name", PyInt(8080))>> }

TlsFields ==
    { <<>> } \cup
    { <<Field("tls", v)>> :
        v \in { PyBool(FALSE), PyBool(TRUE), PyStr("auto"), PyStr("off"),
                CertFull, CertNoKey, PyList(<<CertPlain, CertFull>>) } }

UpstreamFields ==
    { <<>>, <<Field("upstream", PyStr("http://b:80"))>>,
      <<Field("upstream", PyList(<<PyRef(1), PyRef(2)>>))>> }

ExtraFields ==
    { Field("server_raw_options", v) :
        v \in { PyList(<<PyStr("client_max_body_size 10m"), PyStr("charset utf-8")>>),
                PyList(<<PyStr("return 301 https://new.example$request_uri")>>),
                PyStr("client_max_body_size 10m"),
                PyList(<<PyInt(1)>>) } }
    \cup
    { Field("static_files", v) :
        v \in { PyStr("/srv/www"),
                PyDict([path |-> PyStr("/srv/app"), location |-> PyStr("/"),
                        spa |-> PyStr("/index.html")]),
                PyDict([path |-> PyStr("/srv/app"), location |-> PyStr("/"),
                        spa |-> PyStr("/index.html"), index |-> PyStr("index.html")]),
                PyDict([path |-> PyStr("/srv/app")]),
                PyList(<<PyStr("/srv/a"),
                         PyDict([path |-> PyStr("/srv/m"), location |-> PyStr("/media"),
                                 index |-> PyInt(1)])>>) } }
    \cup
    { Field("check_host_header", v) : v \in {PyBool(FALSE), PyStr("no")} }
    \cup
    { Field("listen", PyStr("8080")) }

ServerHeap ==
    << [url |-> PyStr("uwsgi://c:1"), location |-> PyStr("/api"), name |-> PyStr("app")],
       [url |-> PyStr("http://d:80"), location |-> PyStr("/d")] >>

\* a mapping has each key once
DistinctKeys(desc) ==
    \A i, j \in 1..Len(desc) : desc[i].k = desc[j].k => i = j

ExtraLists == {fs \in SeqsUpTo(ExtraFields, MaxExtras) : DistinctKeys(fs)}

\* server_name, tls and upstream come first, or last in the opposite order
InitServer ==
    \E sn \in ServerNameFields, tls \in TlsFields, up \in UpstreamFields,
       fs \in ExtraLists :
        \E desc \in {sn \o tls \o up \o fs, fs \o up \o tls \o sn} :
            Start([servers |-> << [name |-> "a", desc |-> desc] >>,
                   http_raw_options |-> <<>>],
                  ServerHeap)

NextServer ==
    ParseSkip \/ ParseEntry \/ ParseReturn \/ GenerateServer \/ GenerateServersReturn

SpecServer == InitServer /\ [][NextServer]_vars

(* whole documents: a few servers and raw options *)

MainDescriptions ==
    { << Field("server_name", PyStr("one.example")), Field("tls", PyStr("auto")) >>,
      << Field("server_name", PyStr("two.example")), Field("tls", PyStr("auto")),
         Field("upstream", PyStr("http://b:80")) >>,
      << Field("server_name", PyStr("three.example")), Field("tls", PyBool(FALSE)),
         Field("upstream", PyList(<<PyRef(1), PyRef(2)>>)) >>,
      << Field("server_name", PyInt(8080)), Field("tls", PyBool(FALSE)) >>,
      << Field("server_name", PyStr("five.example")) >>,
      << Field("tls", PyStr("auto")), Field("upstream", PyStr("c:1")) >>,
      << Field("server_name", PyInt(8080)), Field("tls", PyStr("auto")) >>,
      << Field("static_files", PyStr("/srv/www")),
         Field("server_raw_options", PyList(<<PyStr("charset utf-8")>>)),
         Field("server_name", PyStr("eight.example")), Field("tls", CertFull),
         Field("upstream", PyRef(1)) >>,
      << Field("server_name", PyStr("nine.example")), Field("tls", PyBool(FALSE)),
         Field("static_files",
               PyDict([path |-> PyStr("/srv/m"), location |-> PyStr("/media"),
                       index |-> PyInt(1)])) >> }

MainRawOptions ==
    { <<>>, <<PyStr("gzip off"), PyStr("include conf.d/a.conf")>>, <<PyInt(5)>> }

\* the key of the i-th server of the document
ServerKey(i) == "srv" \o ToString(i)

Init ==
    \E descs \in SeqsUpTo(MainDescriptions, MaxServers), raws \in MainRawOptions :
        Start([servers |-> [i \in 1..Len(descs) |->
                               [name |-> ServerKey(i), desc |-> descs[i]]],
               http_raw_options |-> raws],
              ServerHeap)

Next ==
    \/ ParseSkip
    \/ ParseEntry
    \/ ParseReturn
    \/ GenerateServer
    \/ GenerateServersReturn
    \/ GenerateHttpEntry
    \/ Assemble
    \/ EmitItem
    \/ EmitReturn

Spec == Init /\ [][Next]_vars

-----------------------------------------------------------------------------
(* Claims about generate_http, under SpecHttp *)

\* the raw options generate_http has applied so far
AppliedOptions == SubSeq(doc.http_raw_options, 1, gh_i - 1)

OptionKey(entry) == Split(entry.s)[1]
IsIncludeOption(entry) == OptionKey(entry) = "include"
IsIncludeItem(item) == Keyword(item) = "include"

\* the options applied so far whose first token is key
LastWithKey(key) ==
    LET ks == {k \in 1..Len(AppliedOptions) : OptionKey(AppliedOptions[k]) = key}
    IN  IF ks = {} THEN 0 ELSE CHOOSE k \in ks : \A j \in ks : j <= k

BaselineKeys == {Keyword(NGINX_HTTP[i]) : i \in 1..Len(NGINX_HTTP)}

\* the first tokens of the applied options that are neither include nor in
\* the baseline table
NewKeys ==
    {OptionKey(AppliedOptions[k]) : k \in 1..Len(AppliedOptions)}
        \ (BaselineKeys \cup {"include"})

AppliedIncludes == SelectSeq(AppliedOptions, IsIncludeOption)

\* C4: while generate_http applies the raw options, every baseline position
\* holds the baseline entry, or, if an applied option that is not an include
\* has its first token, the last such option; no first token other than
\* include occurs twice; the includes of the table are the baseline include
\* followed by every applied include in order; the table has grown by one for
\* each applied include and each new first token, and an option that is an
\* include or the first with its token is the last entry once applied.
C4_HttpMerge ==
    pc = "http" =>
        /\ Len(http) = Len(NGINX_HTTP) + Len(AppliedIncludes) + Cardinality(NewKeys)
        /\ \A i \in 1..Len(NGINX_HTTP) :
              LET key == Keyword(NGINX_HTTP[i])
                  k == LastWithKey(key)
              IN  IF key = "include" \/ k = 0
                  THEN http[i] = NGINX_HTTP[i]
                  ELSE http[i] = St(Split(AppliedOptions[k].s))
        /\ \A i, j \in 1..Len(http) :
              (Keyword(http[i]) = Keyword(http[j]) /\ ~IsIncludeItem(http[i])) => i = j
        /\ SelectSeq(http, IsIncludeItem)
              = <<NGINX_HTTP[2]>>
                \o [k \in 1..Len(AppliedIncludes) |-> St(Split(AppliedIncludes[k].s))]
        /\ gh_i > 1 =>
              LET last == AppliedOptions[gh_i - 1]
                  earlier == {OptionKey(AppliedOptions[k]) : k \in 1..(gh_i - 2)}
              IN  (IsIncludeOption(last)
                   \/ OptionKey(last) \notin BaselineKeys \cup earlier)
                  => http[Len(http)] = St(Split(last.s))

\* a baseline setting was replaced in place and two includes were added
C4_Witness ==
    /\ pc = "http"
    /\ http[7] = St(<<"gzip", "off">>)
    /\ Len(AppliedIncludes) = 2
    /\ gh_i = 4

-----------------------------------------------------------------------------
(* Claims about parse_upstreams, under SpecUpstream *)

\* the name of an emitted upstream block
BlockName(block) == block.toks[2]

\* C2: no two upstream blocks parse_upstreams has emitted carry the same name.
C2_UniqueBlockNames ==
    \A i, j \in 1..Len(upstreams) :
        BlockName(upstreams[i]) = BlockName(upstreams[j]) => i = j

\* a visited entry that was a mapping without a name when it was visited
Unnamed(v) == v.given.t = "dict" /\ ~Has(v.given.d, "name")

\* the visits of unnamed mappings among the first n visits
UnnamedUpTo(n) == {i \in 1..n : Unnamed(visits[i])}

\* C3: the counter, 0 in a fresh process, has advanced exactly once for each
\* visited mapping entry that had no name and for no other entry, and the
\* k-th such entry in traversal order was given the name upstream-auto-k, so
\* that the generated names are distinct and their numbers increase.
C3_CounterNames ==
    /\ upstream_counter = Cardinality(UnnamedUpTo(Len(visits)))
    /\ \A i \in UnnamedUpTo(Len(visits)) :
          LET k == Cardinality(UnnamedUpTo(i))
              generated == PyStr("upstream-auto-" \o ToString(k))
          IN  /\ heap[visits[i].entry.r].name = generated
              /\ ~visits[i].res.raised => visits[i].res.upstream.name = generated
    /\ \A i \in 1..Len(visits) :
          (~Unnamed(visits[i]) /\ ~visits[i].res.raised /\ visits[i].given.t = "str")
              => visits[i].res.upstream.name = PyStr(visits[i].server \o "-upstream")
    /\ \A i \in 1..Len(visits) :
          (~Unnamed(visits[i]) /\ ~visits[i].res.raised /\ visits[i].given.t = "dict")
              => visits[i].res.upstream.name = visits[i].given.d.name

\* two unnamed mappings of different servers were visited after a named one
C3_Witness ==
    /\ Len(visits) = 3
    /\ visits[1].given.t = "dict" /\ Has(visits[1].given.d, "name")
    /\ Unnamed(visits[2]) /\ Unnamed(visits[3])
    /\ visits[2].server # visits[3].server
    /\ upstream_counter = 2
    /\ ~visits[3].res.raised

\* the url of a visited entry starts with http:// or uwsgi://
ValidUrl(v) ==
    LET url == IF v.given.t = "str" THEN v.given ELSE v.given.d.url
    IN  url.t = "str" /\ (StartsWith(url.s, "http://") \/ StartsWith(url.s, "uwsgi://"))

\* C10: an entry with a valid url that gives no location, a bare URL or a
\* mapping without location, resolves, to a record whose location is "/".
C10_DefaultLocation ==
    \A i \in 1..Len(visits) :
        (ValidUrl(visits[i])
         /\ (visits[i].given.t = "str" \/ ~Has(visits[i].given.d, "location")))
            => /\ ~visits[i].res.raised
               /\ visits[i].res.upstream.location = PyStr("/")

-----------------------------------------------------------------------------
(* Claims about generate_server, under SpecServer: one server, "a" *)

TheServer == input_servers[1]

\* generate_server has returned for the server, without raising
Returned == Len(returned) = 1 /\ ~returned[1].raised

\* the description with its tls field, if any, replaced by tls: false
WithTlsFalse(desc) ==
    SelectSeq(desc, LAMBDA f : f.k # "tls") \o <<Field("tls", PyBool(FALSE))>>

\* the block that carries the content: the last one
ContentBlock == servers[Len(servers)]

IsRedirect(item) ==
    /\ Keyword(item) = "return"
    /\ Len(item.toks) >= 3
    /\ item.toks[2] = PyStr("301")
    /\ item.toks[3].t = "str" /\ StartsWith(item.toks[3].s, "https://")

IsHsts(item) ==
    /\ Keyword(item) = "add_header"
    /\ Len(item.toks) >= 2
    /\ item.toks[2] = PyStr("Strict-Transport-Security")

IsCertificate(item) ==
    Keyword(item) \in {"ssl_certificate", "ssl_certificate_key", "ssl_trusted_certificate"}

Forbidden(item) == IsRedirect(item) \/ IsHsts(item) \/ IsCertificate(item)

\* the directives of a block, and those of the blocks in it, three levels deep
Children(items) == UNION {{it.block[i] : i \in 1..Len(it.block)} : it \in items}
Inside(block) ==
    LET l1 == Children({block})
        l2 == Children(l1)
        l3 == Children(l2)
    IN  l1 \cup l2 \cup l3 \cup Children(l3)

\* C1: for a server entry without tls that is otherwise valid, generate_server
\* does not fail and returns the redirect listener and then the TLS listener.
C1_TlsAbsentDefaults ==
    ( /\ Len(returned) = 1
      /\ ~HasKey(TheServer.desc, "tls")
      /\ ~generate_server(TheServer.name, WithTlsFalse(TheServer.desc),
                          upstreams_get(configs, TheServer.name)).raised )
    => /\ ~returned[1].raised
       /\ returned[1].n = 2
       /\ \E i \in 1..Len(servers[1].block) : IsRedirect(servers[1].block[i])
       /\ \E i \in 1..Len(servers[2].block) :
             servers[2].block[i] = St(<<"ssl_protocols", "TLSv1.2">>)

\* the directives the entry's own server_raw_options spell out
RawItems(desc) ==
    IF ~HasKey(desc, "server_raw_options") THEN {}
    ELSE LET content == Get(desc, "server_raw_options").l
         IN  {St(Split(content[i].s)) : i \in 1..Len(content)}

TlsFalse(desc) == HasKey(desc, "tls") /\ Get(desc, "tls") = PyBool(FALSE)

\* C8 as claimed: with tls: false, one server block, and in it no
\* Strict-Transport-Security header, no redirect to HTTPS and no certificate
\* directive, whatever the other fields are.
C8_PlaintextOnly ==
    (Returned /\ TlsFalse(TheServer.desc))
    => /\ returned[1].n = 1
       /\ \A item \in Inside(ContentBlock) : ~Forbidden(item)

\* C8 as amended: the same, except for the directives that the entry's own
\* server_raw_options spell out, which are passed through.
C8_PlaintextOnlyButRaw ==
    (Returned /\ TlsFalse(TheServer.desc))
    => /\ returned[1].n = 1
       /\ \A item \in Inside(ContentBlock) :
             Forbidden(item) =>
                /\ item \in RawItems(TheServer.desc)
                /\ \E i \in 1..Len(ContentBlock.block) : ContentBlock.block[i] = item

\* a plaintext server with raw options, a static mount and two upstreams
C8_Witness ==
    /\ Returned
    /\ TlsFalse(TheServer.desc)
    /\ HasKey(TheServer.desc, "server_raw_options")
    /\ HasKey(TheServer.desc, "static_files")
    /\ Len(configs["a"]) = 2

\* the kinds of directive generate_server adds to the content-carrying block
IsRawLine(item) == item \in RawItems(TheServer.desc)
IsChallenge(item) == item = acme_location
IsProxyLocation(item) ==
    /\ item.isblock
    /\ Keyword(item) = "location"
    /\ \E i \in 1..Len(item.block) : Keyword(item.block[i]) \in {"proxy_pass", "uwsgi_pass"}
IsStaticLocation(item) ==
    /\ item.isblock
    /\ Keyword(item) = "location"
    /\ ~IsChallenge(item)
    /\ Keyword(item.block[1]) \in {"alias", "root"}

\* where the field with the given key stands in the entry
FieldIndex(desc, key) == CHOOSE i \in 1..Len(desc) : desc[i].k = key

\* the rank the claim gives each kind of directive; 0 for the base directives
ClaimedRank(item) ==
    IF IsProxyLocation(item) THEN 4
    ELSE IF IsCertificate(item) \/ IsChallenge(item) THEN 3
    ELSE IF IsStaticLocation(item) THEN 2
    ELSE IF IsRawLine(item) THEN 1
    ELSE 0

\* the same with raw options and static mounts ranked by the place of their
\* field in the entry
FieldRank(item) ==
    LET desc == TheServer.desc
    IN  IF IsProxyLocation(item) THEN Len(desc) + 2
        ELSE IF IsCertificate(item) \/ IsChallenge(item) THEN Len(desc) + 1
        ELSE IF IsStaticLocation(item) THEN FieldIndex(desc, "static_files")
        ELSE IF IsRawLine(item) THEN FieldIndex(desc, "server_raw_options")
        ELSE 0

\* the proxy locations of the block, in order
ProxyLocations == SelectSeq(ContentBlock.block, IsProxyLocation)

\* one proxy location per resolved upstream of the server, in their order
OnePerUpstream ==
    /\ Len(ProxyLocations) = Len(configs["a"])
    /\ \A i \in 1..Len(ProxyLocations) :
          ProxyLocations[i].toks[2] = configs["a"][i].location

\* C9 as claimed: in the content-carrying block the raw-option lines come
\* first, then the static locations, then the certificate directives and the
\* challenge location, then one proxy location per resolved upstream, whatever
\* the order of the fields in the entry.
C9_FixedOrder ==
    Returned =>
        /\ LET rank == [i \in 1..Len(ContentBlock.block) |->
                            ClaimedRank(ContentBlock.block[i])]
           IN  \A i \in 1..(Len(rank) - 1) : rank[i] <= rank[i + 1]
        /\ OnePerUpstream

\* C9 as amended: the raw-option lines and the static locations come in the
\* order of their fields in the entry, both before the certificate directives
\* and the challenge location, and those before the proxy locations, one per
\* resolved upstream.
C9_FieldOrder ==
    Returned =>
        /\ LET rank == [i \in 1..Len(ContentBlock.block) |->
                            FieldRank(ContentBlock.block[i])]
           IN  \A i \in 1..(Len(rank) - 1) : rank[i] <= rank[i + 1]
        /\ OnePerUpstream

\* static mounts given before raw options, with certificates and two upstreams
C9_Witness ==
    /\ Returned
    /\ returned[1].n = 2
    /\ HasKey(TheServer.desc, "static_files")
    /\ HasKey(TheServer.desc, "server_raw_options")
    /\ FieldIndex(TheServer.desc, "static_files")
          < FieldIndex(TheServer.desc, "server_raw_options")
    /\ \E i \in 1..Len(ContentBlock.block) : IsCertificate(ContentBlock.block[i])
    /\ \E i \in 1..Len(ContentBlock.block) : IsRawLine(ContentBlock.block[i])
    /\ \E i \in 1..Len(ContentBlock.block) : IsStaticLocation(ContentBlock.block[i])
    /\ Len(ProxyLocations) = 2

-----------------------------------------------------------------------------
(* Claims about main, under Spec *)

\* C5: when a run of main has failed, nothing has been written to the output.
C5_NoPartialOutput == pc = "failed" => out = <<>>

SelectsAuto(desc) == HasKey(desc, "tls") /\ Get(desc, "tls") = PyStr("auto")

\* the servers with tls: auto among the first n of the document
AutoServers(n) == {i \in 1..n : SelectsAuto(input_servers[i].desc)}

LastOf(S) == CHOOSE i \in S : \A j \in S : j <= i

\* C6: as long as the run has not failed, /tmp/le-domain.txt holds exactly the
\* server_name of the last tls: auto server generated so far, so that of the
\* last one of the document once generate_servers is over, and it does not
\* exist when there was none; a run on a document without a tls: auto server
\* never creates it.
C6_LastWriterWins ==
    /\ pc # "failed" =>
          LET auto == AutoServers(gs_i - 1)
          IN  IF auto = {} THEN ~le_file.exists
              ELSE /\ le_file.exists
                   /\ PyStr(le_file.text)
                         = Get(input_servers[LastOf(auto)].desc, "server_name")
    /\ AutoServers(Len(input_servers)) = {} => ~le_file.exists

\* a finished run on two tls: auto servers of different names
C6_Witness ==
    /\ pc = "done"
    /\ AutoServers(Len(input_servers)) = {1, 2}
    /\ Get(input_servers[1].desc, "server_name") # Get(input_servers[2].desc, "server_name")
    /\ le_file.text = "two.example"

\* main has built nginx_conf
Assembled == Len(nginx_conf) > 0

\* the children of the http block of nginx_conf
HttpBlock == nginx_conf[Len(nginx_conf)].block

IsUpstreamBlock(item) == item.isblock /\ Keyword(item) = "upstream"
IsServerBlock(item) == item.isblock /\ Keyword(item) = "server"

\* 0 for a setting, 1 for an upstream block, 2 for a server block
Part(item) == IF IsServerBlock(item) THEN 2 ELSE IF IsUpstreamBlock(item) THEN 1 ELSE 0

\* the key of the server a server block was generated for, from its comment
ServerOf(block) == block.block[1].toks[2].s

DocIndex(key) == CHOOSE i \in 1..Len(input_servers) : input_servers[i].name = key

\* the upstream name a proxy_pass or uwsgi_pass directive refers to
PassTarget(item) ==
    IF Keyword(item) = "proxy_pass"
    THEN PyStr(SubSeq(item.toks[2].s, Len("http://") + 1, Len(item.toks[2].s)))
    ELSE item.toks[2]

\* the proxy_pass and uwsgi_pass directives of a server block
Passes(block) ==
    {item \in Inside(block) : Keyword(item) \in {"proxy_pass", "uwsgi_pass"}}

\* the upstream a line of the output passes to, "" for any other line
LineTarget(line) ==
    IF StartsWith(line, "      proxy_pass http://")
    THEN SubSeq(line, Len("      proxy_pass http://") + 1, Len(line) - 1)
    ELSE IF StartsWith(line, "      uwsgi_pass ")
    THEN SubSeq(line, Len("      uwsgi_pass ") + 1, Len(line) - 1)
    ELSE ""

\* C7: in the http block main assembles, the settings come first, then the
\* upstream blocks in the order the upstreams were encountered, then the
\* server blocks in document order; every proxy_pass or uwsgi_pass of a
\* server block names an upstream block that stands before it, in the tree
\* and in the text written.
C7_UpstreamsBeforeServers ==
    /\ Assembled =>
          LET h == HttpBlock
              ups == SelectSeq(h, IsUpstreamBlock)
              srv == SelectSeq(h, IsServerBlock)
          IN  /\ \A i \in 1..(Len(h) - 1) : Part(h[i]) <= Part(h[i + 1])
              /\ BaselineKeys \subseteq {Keyword(h[i]) : i \in 1..Len(NGINX_HTTP)}
              /\ \A k \in 1..Len(doc.http_raw_options) :
                    \E i \in 1..Len(h) :
                       Part(h[i]) = 0 /\ h[i] = St(Split(doc.http_raw_options[k].s))
              /\ Len(ups) = Len(visits)
              /\ \A k \in 1..Len(ups) : BlockName(ups[k]) = visits[k].res.upstream.name
              /\ {ServerOf(srv[k]) : k \in 1..Len(srv)}
                    = {input_servers[i].name : i \in 1..Len(input_servers)}
              /\ \A k \in 1..(Len(srv) - 1) :
                    DocIndex(ServerOf(srv[k])) <= DocIndex(ServerOf(srv[k + 1]))
              /\ \A j \in 1..Len(h) :
                    IsServerBlock(h[j]) =>
                       \A item \in Passes(h[j]) :
                          \E i \in 1..(j - 1) :
                             IsUpstreamBlock(h[i]) /\ BlockName(h[i]) = PassTarget(item)
    /\ pc = "done" =>
          \A j \in 1..Len(out) :
             LineTarget(out[j]) # "" =>
                \E i \in 1..(j - 1) : out[i] = "  upstream " \o LineTarget(out[j]) \o " {"

\* a finished run with raw http options, three upstreams met on two servers,
\* and both kinds of pass directive
C7_Witness ==
    /\ pc = "done"
    /\ Len(doc.http_raw_options) = 2
    /\ Len(visits) = 3
    /\ Len(input_servers) = 2
    /\ \E j \in 1..Len(out) : StartsWith(out[j], "      proxy_pass http://")
    /\ \E j \in 1..Len(out) : StartsWith(out[j], "      uwsgi_pass ")

====
